---- MODULE Spec2Model ----
(***************************************************************************)
(* Grid-based coverage and candidate ranking of the AED placement          *)
(* analysis:                                                               *)
(*   04_future_analysis/grid_level_recommendation_fast.py   (rasterise,    *)
(*       distribute weight, classify, score, sort, save the CSV)           *)
(*   04_future_analysis/grid_level_recommendation_grouped.py (greedy       *)
(*       grouping of the saved candidates)                                 *)
(*                                                                         *)
(* Frame.  Coordinates are integers in the local metre frame the fast      *)
(* script projects into (x = lon * LON_TO_M, y = lat * LAT_TO_M).  A       *)
(* distance d is carried as its square, so that "d <= r" is                *)
(* "d2 <= r * r" over the integers.  Weights are exact rationals           *)
(* [n, d] in lowest terms (risk_pop / len(grid_points) is a true           *)
(* division); int() is truncation.  Polygons are axis-aligned rectangles.  *)
(* Float rounding, and the rounding of the saved coordinates to six         *)
(* decimals of a degree, are below the resolution of this frame.           *)
(***************************************************************************)
EXTENDS Integers, Sequences, FiniteSets, TLC

(***************************************************************************)
(* Configuration constants of the scripts.                                 *)
(***************************************************************************)
GRID_SPACING == 50

COVER_DISTANCE == 300

GROUP_DISTANCE == 500

\* "if len(selected) >= 20: break"
TOP_N == 20

\* df_results.head(100)
HEAD_ROWS == 100

(***************************************************************************)
(* Bounds of the model.                                                    *)
(***************************************************************************)
\* the number of polygon features of a run
MaxFeatures == 2

\* the number of rows of a free-form candidate file
MaxRows == 3

\* a long candidate file holds up to TOP_N + MaxExtra rows
MaxExtra == 2

(***************************************************************************)
(* Exact rational arithmetic for the float weights.                        *)
(***************************************************************************)
RECURSIVE GCD(_, _)
GCD(a, b) == IF b = 0 THEN a ELSE GCD(b, a % b)

Norm(n, d) ==
    LET g == GCD(IF n < 0 THEN -n ELSE n, d)
    IN  IF n = 0 THEN [n |-> 0, d |-> 1] ELSE [n |-> n \div g, d |-> d \div g]

Rat(k) == [n |-> k, d |-> 1]

RAdd(a, b) == Norm(a.n * b.d + b.n * a.d, a.d * b.d)

\* a / k for a count k >= 1
RDiv(a, k) == Norm(a.n, a.d * k)

RLeq(a, b) == a.n * b.d <= b.n * a.d

\* Python's int(x): truncation toward zero
int(a) == IF a.n >= 0 THEN a.n \div a.d ELSE -((-a.n) \div a.d)

\* numpy's arr.sum() over a sequence of weights
RECURSIVE RSumRange(_, _, _)
RSumRange(s, lo, hi) ==
    IF lo > hi THEN Rat(0)
    ELSE IF lo = hi THEN s[lo]
    ELSE LET mid == (lo + hi) \div 2
         IN  RAdd(RSumRange(s, lo, mid), RSumRange(s, mid + 1, hi))

RSum(s) == RSumRange(s, 1, Len(s))

(***************************************************************************)
(* Geometry.  A point is [lat, lon] in metres (lat = y, lon = x).          *)
(***************************************************************************)
Pt(lat, lon) == [lat |-> lat, lon |-> lon]

\* squared planar distance: what cKDTree measures on the projected
\* coordinates and what haversine_distance measures on the degrees
SqDist(lat1, lon1, lat2, lon2) ==
    (lat1 - lat2) * (lat1 - lat2) + (lon1 - lon2) * (lon1 - lon2)

haversine_distance(lat1, lon1, lat2, lon2) == SqDist(lat1, lon1, lat2, lon2)

\* "dist <= radius" on a squared distance
Within(d2, radius) == d2 <= radius * radius

Rect(minx, miny, maxx, maxy) ==
    [minx |-> minx, miny |-> miny, maxx |-> maxx, maxy |-> maxy, valid |-> TRUE]

\* a ring that crosses itself: GEOS raises on the predicates of such a geometry
Bowtie(minx, miny, maxx, maxy) ==
    [minx |-> minx, miny |-> miny, maxx |-> maxx, maxy |-> maxy, valid |-> FALSE]

\* faulty variant: the boundary counts as inside (polygon.covers)
contains_closed(polygon, x, y) ==
    /\ polygon.minx <= x /\ x <= polygon.maxx
    /\ polygon.miny <= y /\ y <= polygon.maxy

\* shapely's polygon.contains(Point(x, y)): the interior, boundary excluded
contains(polygon, x, y) ==
    /\ polygon.minx < x /\ x < polygon.maxx
    /\ polygon.miny < y /\ y < polygon.maxy

centroid(polygon) ==
    Pt((polygon.miny + polygon.maxy) \div 2, (polygon.minx + polygon.maxx) \div 2)

\* faulty variant: the lattice starts half a cell inside the bounding box
generate_grid_points_centred(polygon, spacing_m) ==
    LET ny  == (polygon.maxy - polygon.miny) \div spacing_m
        nx  == (polygon.maxx - polygon.minx) \div spacing_m
        at(k) == Pt(polygon.miny + spacing_m \div 2 + (k \div (nx + 1)) * spacing_m,
                    polygon.minx + spacing_m \div 2 + (k % (nx + 1)) * spacing_m)
        lattice == [k \in 1..((ny + 1) * (nx + 1)) |-> at(k - 1)]
    IN  SelectSeq(lattice, LAMBDA p : contains(polygon, p.lon, p.lat))

\* the lattice from the bounding box's minimum corner, row by row
\* (outer loop y, inner loop x), kept where the polygon contains it
generate_grid_points(polygon, spacing_m) ==
    LET ny  == (polygon.maxy - polygon.miny) \div spacing_m
        nx  == (polygon.maxx - polygon.minx) \div spacing_m
        at(k) == Pt(polygon.miny + (k \div (nx + 1)) * spacing_m,
                    polygon.minx + (k % (nx + 1)) * spacing_m)
        lattice == [k \in 1..((ny + 1) * (nx + 1)) |-> at(k - 1)]
    IN  SelectSeq(lattice, LAMBDA p : contains(polygon, p.lon, p.lat))


\* faulty variant: the distance to the first point of the tree
query_first(tree, p) ==
    IF tree = <<>> THEN [inf |-> TRUE, d2 |-> 0]
    ELSE [inf |-> FALSE, d2 |-> SqDist(tree[1].lat, tree[1].lon, p.lat, p.lon)]

\* faulty variant: an empty tree answers distance 0 instead of infinity
RECURSIVE query_empty_zero(_, _)
query_empty_zero(tree, p) ==
    IF tree = <<>> THEN [inf |-> FALSE, d2 |-> 0]
    ELSE LET h == SqDist(Head(tree).lat, Head(tree).lon, p.lat, p.lon)
             r == query_empty_zero(Tail(tree), p)
         IN  IF h <= r.d2 \/ Len(tree) = 1 THEN [inf |-> FALSE, d2 |-> h] ELSE r

\* faulty variant: the farthest point of the tree instead of the nearest
RECURSIVE query_farthest(_, _)
query_farthest(tree, p) ==
    IF tree = <<>> THEN [inf |-> TRUE, d2 |-> 0]
    ELSE LET h == SqDist(Head(tree).lat, Head(tree).lon, p.lat, p.lon)
             r == query_farthest(Tail(tree), p)
         IN  IF r.inf \/ h >= r.d2 THEN [inf |-> FALSE, d2 |-> h] ELSE r

\* cKDTree.query(p): the distance from p to the nearest point of the tree;
\* an empty tree answers an infinite distance
RECURSIVE query(_, _)
query(tree, p) ==
    IF tree = <<>> THEN [inf |-> TRUE, d2 |-> 0]
    ELSE LET h == SqDist(Head(tree).lat, Head(tree).lon, p.lat, p.lon)
             r == query(Tail(tree), p)
         IN  IF r.inf \/ h <= r.d2 THEN [inf |-> FALSE, d2 |-> h] ELSE r

\* faulty variant: "distances < COVER_DISTANCE"
LtRadius(dist, radius) == ~dist.inf /\ dist.d2 < radius * radius

\* faulty variant: the coverage test uses the grouping distance
LeqRadius_conflated(dist, radius) == ~dist.inf /\ Within(dist.d2, GROUP_DISTANCE)

\* "distances <= COVER_DISTANCE" on a query answer
LeqRadius(dist, radius) == ~dist.inf /\ Within(dist.d2, radius)

\* faulty variant: the ball without its boundary
query_ball_point_open(tree, p, r) ==
    SelectSeq([k \in 1..Len(tree) |-> k],
              LAMBDA k : SqDist(tree[k].lat, tree[k].lon, p.lat, p.lon) < r * r)

\* faulty variant: the ball without its centre
query_ball_point_others(tree, p, r) ==
    SelectSeq([k \in 1..Len(tree) |-> k],
              LAMBDA k : /\ SqDist(tree[k].lat, tree[k].lon, p.lat, p.lon) > 0
                         /\ Within(SqDist(tree[k].lat, tree[k].lon, p.lat, p.lon), r))

\* cKDTree.query_ball_point(p, r): the indices of the tree's points within r of p
query_ball_point(tree, p, r) ==
    SelectSeq([k \in 1..Len(tree) |-> k],
              LAMBDA k : Within(SqDist(tree[k].lat, tree[k].lon, p.lat, p.lon), r))

\* arr[mask]: the entries of arr where mask holds, in order
Masked(arr, mask) ==
    LET keep == SelectSeq([k \in 1..Len(arr) |-> k], LAMBDA k : mask[k])
    IN  [k \in 1..Len(keep) |-> arr[keep[k]]]

\* arr[indices]
Take(arr, indices) == [k \in 1..Len(indices) |-> arr[indices[k]]]

\* faulty variant: the rows are left in the order of the file
sort_values_missing(rows) == rows

\* DataFrame.sort_values(score, ascending=False): descending by score, rows of
\* equal score kept in their order.  Row k lands behind the rows of higher
\* score and the earlier rows of equal score.
sort_values(rows) ==
    LET place(k) ==
            1 + Cardinality({j \in 1..Len(rows) :
                               \/ rows[j].score > rows[k].score
                               \/ rows[j].score = rows[k].score /\ j < k})
    IN  [p \in 1..Len(rows) |-> rows[CHOOSE k \in 1..Len(rows) : place(k) = p]]

\* DataFrame.head(n)
head(rows, n) == SubSeq(rows, 1, IF Len(rows) < n THEN Len(rows) ELSE n)

(***************************************************************************)
(* Inputs of a run.                                                        *)
(***************************************************************************)
\* polygon features: too small for a lattice point, one cell, two cells
\* 250 m and 300 m from the first, and a strip of twelve cells
Polygons ==
    { Rect(0, 0, 40, 40), Rect(0, 0, 100, 100), Rect(250, 0, 400, 100),
      Rect(0, 0, 650, 100) }

\* (ward, town name) keys
Names == {"A", "B"}

\* risk-weighted populations of the population table
Weights == {1, 3}

\* sites of installed units, in file order
AedFiles ==
    { <<>>, <<Pt(50, 350)>>, <<Pt(50, 0)>>, <<Pt(50, 350), Pt(50, 0)>> }

FeatureLists ==
    UNION { [1..n -> [geometry : Polygons, name : Names]] : n \in 1..MaxFeatures }

PopTables == UNION { [S -> Weights] : S \in SUBSET Names }

\* the candidate file before any run wrote it
NoFile == [exists |-> FALSE, rows |-> <<>>]

File(rows) == [exists |-> TRUE, rows |-> rows]

VARIABLES
    features,        \* load_shapefiles()
    pop_data,        \* load_population_data(): name -> risk-weighted population
    aed_coords,      \* the installed units
    csv,             \* grid_level_recommendations.csv
    pc,              \* where the scripts stand
    i,               \* the feature loop's position
    grid_points,     \* the current feature's grid points
    risk_per_point,  \* the current feature's weight per point
    all_points,
    is_covered,
    uncovered_xy,
    uncovered_risks,
    uncovered_info,
    results,
    df_results,
    df,              \* the grouping script's sorted candidates
    pos,             \* the grouping loop's position (idx + 1)
    selected,
    used_indices,
    grid_spacing,    \* the lattice spacing in force (GRID_SPACING in the scripts)
    cover_distance,  \* the coverage radius in force (COVER_DISTANCE in the scripts)
    history,         \* the runs completed before this one: inputs and outcome
    df_concat,       \* merge_aed_data.py: the four sources concatenated
    df_merged,       \* merge_aed_data.py: the records remove_duplicates keeps
    df_chocho,       \* aed_placement_recommendation.py: the regions
    recommendations, \* aed_placement_recommendation.py: the TOP10 sites
    cumulative_new_coverage

vars ==
    << features, pop_data, aed_coords, csv, pc, i, grid_points, risk_per_point,
       all_points, is_covered, uncovered_xy, uncovered_risks, uncovered_info,
       results, df_results, df, pos, selected, used_indices, grid_spacing,
       cover_distance, history, df_concat, df_merged, df_chocho,
       recommendations, cumulative_new_coverage >>

\* the state of merge_aed_data.py and aed_placement_recommendation.py
upstreamVars ==
    << df_concat, df_merged, df_chocho, recommendations,
       cumulative_new_coverage >>

fastVars ==
    << i, grid_points, risk_per_point, all_points, is_covered, uncovered_xy,
       uncovered_risks, uncovered_info, results, df_results >>

groupVars == << df, pos, selected, used_indices >>

inputVars == << features, pop_data, aed_coords, grid_spacing, cover_distance >>

\* the constants as the scripts define them, and no earlier run
ScriptConfig ==
    /\ grid_spacing = GRID_SPACING
    /\ cover_distance = COVER_DISTANCE
    /\ history = <<>>

Blank ==
    /\ i = 1
    /\ grid_points = <<>>
    /\ risk_per_point = Rat(0)
    /\ all_points = <<>>
    /\ is_covered = <<>>
    /\ uncovered_xy = <<>>
    /\ uncovered_risks = <<>>
    /\ uncovered_info = <<>>
    /\ results = <<>>
    /\ df_results = <<>>
    /\ df = <<>>
    /\ pos = 1
    /\ selected = <<>>
    /\ used_indices = {}

\* merge_aed_data.py and aed_placement_recommendation.py have not run
NoUpstream ==
    /\ df_concat = <<>>
    /\ df_merged = <<>>
    /\ df_chocho = <<>>
    /\ recommendations = <<>>
    /\ cumulative_new_coverage = 0

\* the fast script starts on its inputs; no candidate file exists yet
Init ==
    /\ features \in FeatureLists
    /\ pop_data \in PopTables
    /\ aed_coords \in AedFiles
    /\ csv = NoFile
    /\ pc = "grid"
    /\ Blank
    /\ NoUpstream
    /\ ScriptConfig

(***************************************************************************)
(* grid_level_recommendation_fast.py, main()                               *)
(***************************************************************************)
\* the population weight matched to a feature (0 when no row matches)
risk_pop_of(feat) ==
    IF feat.name \in DOMAIN pop_data THEN Rat(pop_data[feat.name]) ELSE Rat(0)

\* faulty variant: no centroid fallback
grid_points_no_fallback(polygon) == generate_grid_points(polygon, grid_spacing)

\* generate_grid_points with the centroid fallback
grid_points_of(polygon) ==
    LET pts == generate_grid_points(polygon, grid_spacing)
    IN  IF Len(pts) = 0 THEN << centroid(polygon) >> ELSE pts

\* faulty variant: integer division "//" for the weight per point
risk_per_point_floor(risk_pop, pts) ==
    IF Len(pts) > 0 THEN Rat(int(RDiv(risk_pop, Len(pts)))) ELSE Rat(0)

\* risk_pop / len(grid_points) if grid_points else 0
risk_per_point_of(risk_pop, pts) ==
    IF Len(pts) > 0 THEN RDiv(risk_pop, Len(pts)) ELSE Rat(0)

\* one iteration of "for i, feat in enumerate(features)"
\* (generate_grid_points returns: its loops end and contains() does not raise)
GridStep ==
    /\ pc = "grid"
    /\ i <= Len(features)
    /\ features[i].geometry.valid
    /\ grid_spacing > 0
    /\ LET feat == features[i]
           pts  == grid_points_of(feat.geometry)
           rpp  == risk_per_point_of(risk_pop_of(feat), pts)
       IN  /\ grid_points' = pts
           /\ risk_per_point' = rpp
           /\ all_points' = all_points \o
                  [k \in 1..Len(pts) |->
                      [lat |-> pts[k].lat, lon |-> pts[k].lon,
                       name |-> feat.name, risk |-> rpp]]
    /\ i' = i + 1
    /\ UNCHANGED << inputVars, upstreamVars, history,
                    csv, pc, is_covered, uncovered_xy, uncovered_risks,
                    uncovered_info, results, df_results, groupVars >>

\* generate_grid_points with a spacing that is not positive: "x += lon_spacing"
\* never takes x beyond maxx, the inner while loop does not end
GridLoopsForever ==
    /\ pc = "grid"
    /\ i <= Len(features)
    /\ features[i].geometry.valid
    /\ grid_spacing <= 0
    /\ pc' = "spin"
    /\ UNCHANGED << inputVars, upstreamVars, history,
                    csv, fastVars, groupVars >>

\* polygon.contains raises on the feature's geometry; nothing in main catches
\* it, the script ends with the exception
GridRaises ==
    /\ pc = "grid"
    /\ i <= Len(features)
    /\ ~features[i].geometry.valid
    /\ pc' = "aborted"
    /\ UNCHANGED << inputVars, upstreamVars, history,
                    csv, fastVars, groupVars >>

\* distances, _ = aed_tree.query(points_xy); is_covered = distances <= COVER_DISTANCE
classify(points, facilities, radius) ==
    [k \in 1..Len(points) |-> LeqRadius(query(facilities, points[k]), radius)]

Classify ==
    /\ pc = "grid"
    /\ i > Len(features)
    /\ is_covered' = classify(all_points, aed_coords, cover_distance)
    /\ pc' = "extract"
    /\ UNCHANGED << inputVars, upstreamVars, history,
                    csv, i, grid_points, risk_per_point, all_points,
                    uncovered_xy, uncovered_risks, uncovered_info, results,
                    df_results, groupVars >>

\* faulty variant: the mask is not negated
covered_mask(covered) == [k \in 1..Len(covered) |-> covered[k]]

\* uncovered_idx = ~is_covered
uncovered_mask(covered) == [k \in 1..Len(covered) |-> ~covered[k]]

\* the extraction of the uncovered points, and the early return when none is left
ExtractUncovered ==
    /\ pc = "extract"
    /\ LET uncovered_idx == uncovered_mask(is_covered)
           info == Masked(all_points, uncovered_idx)
       IN  /\ uncovered_xy' = [k \in 1..Len(info) |-> Pt(info[k].lat, info[k].lon)]
           /\ uncovered_risks' = [k \in 1..Len(info) |-> info[k].risk]
           /\ uncovered_info' = info
           /\ pc' = IF Len(info) = 0 THEN "returned" ELSE "score"
    /\ UNCHANGED << inputVars, upstreamVars, history,
                    csv, i, grid_points, risk_per_point, all_points,
                    is_covered, results, df_results, groupVars >>

\* new_covered_risk of the candidate at position k, over the tree of tree_xy
new_covered_risk(tree_xy, risks, p) ==
    RSum(Take(risks, query_ball_point(tree_xy, p, cover_distance)))

\* faulty variant: a point's weight goes to the first candidate in reach only
result_row_marginal(k) ==
    LET near  == query_ball_point(uncovered_xy, uncovered_xy[k], cover_distance)
        fresh == SelectSeq(near, LAMBDA q :
                     \A j \in 1..(k - 1) :
                         ~Within(SqDist(uncovered_xy[j].lat, uncovered_xy[j].lon,
                                        uncovered_xy[q].lat, uncovered_xy[q].lon),
                                 cover_distance))
    IN  [lat   |-> uncovered_info[k].lat,
         lon   |-> uncovered_info[k].lon,
         name  |-> uncovered_info[k].name,
         score |-> int(RSum(Take(uncovered_risks, fresh)))]

\* faulty variant: the radius query runs against the tree of all grid points
result_row_all_points(k) ==
    [lat   |-> uncovered_info[k].lat,
     lon   |-> uncovered_info[k].lon,
     name  |-> uncovered_info[k].name,
     score |-> int(new_covered_risk(all_points,
                                    [q \in 1..Len(all_points) |-> all_points[q].risk],
                                    uncovered_xy[k]))]

\* the row recorded for the candidate at position k
result_row(k) ==
    [lat   |-> uncovered_info[k].lat,
     lon   |-> uncovered_info[k].lon,
     name  |-> uncovered_info[k].name,
     score |-> int(new_covered_risk(uncovered_xy, uncovered_risks, uncovered_xy[k]))]

\* the loop "for idx in range(total)": one row per uncovered point
ScoreCandidates ==
    /\ pc = "score"
    /\ results' = [k \in 1..Len(uncovered_xy) |-> result_row(k)]
    /\ pc' = "sort"
    /\ UNCHANGED << inputVars, upstreamVars, history,
                    csv, i, grid_points, risk_per_point, all_points,
                    is_covered, uncovered_xy, uncovered_risks, uncovered_info,
                    df_results, groupVars >>

\* df_results = DataFrame(results).sort_values(..., ascending=False)
SortResults ==
    /\ pc = "sort"
    /\ df_results' = sort_values(results)
    /\ pc' = "save"
    /\ UNCHANGED << inputVars, upstreamVars, history,
                    csv, i, grid_points, risk_per_point, all_points,
                    is_covered, uncovered_xy, uncovered_risks, uncovered_info,
                    results, groupVars >>

\* df_results.head(100).to_csv('grid_level_recommendations.csv')
SaveCsv ==
    /\ pc = "save"
    /\ csv' = File(head(df_results, HEAD_ROWS))
    /\ pc' = "saved"
    /\ UNCHANGED << inputVars, upstreamVars, history, fastVars, groupVars >>


(***************************************************************************)
(* grid_level_recommendation_grouped.py, main()                            *)
(***************************************************************************)
\* df = pd.read_csv(...).sort_values(..., ascending=False).reset_index(drop=True)
LoadCandidates ==
    /\ pc \in {"saved", "returned", "load"}
    /\ csv.exists
    /\ df' = sort_values(csv.rows)
    /\ pos' = 1
    /\ selected' = <<>>
    /\ used_indices' = {}
    /\ pc' = "loop"
    /\ UNCHANGED << inputVars, upstreamVars, history, csv, fastVars >>

\* pd.read_csv raises when the file does not exist
LoadFails ==
    /\ pc \in {"saved", "returned", "load"}
    /\ ~csv.exists
    /\ pc' = "failed"
    /\ UNCHANGED << inputVars, upstreamVars, history,
                    csv, fastVars, groupVars >>

\* faulty variant: the score is read at the rank instead of the row's position
selection_by_rank(k, rank) ==
    [rank  |-> rank,
     lat   |-> df[k].lat,
     lon   |-> df[k].lon,
     name  |-> df[k].name,
     score |-> df[rank].score,
     orig  |-> k]

\* the Recommendation appended for the row at position k (label idx = k - 1)
selection(k, rank) ==
    [rank  |-> rank,
     lat   |-> df[k].lat,
     lon   |-> df[k].lon,
     name  |-> df[k].name,
     score |-> df[k].score,
     orig  |-> k]

\* faulty variant: the distance is computed in kilometres (R = 6371)
near_unused_km(k, used) ==
    { o \in 1..Len(df) :
        /\ o \notin used
        /\ Within(haversine_distance(df[k].lat, df[k].lon, df[o].lat, df[o].lon)
                      \div (1000 * 1000),
                  GROUP_DISTANCE) }

\* faulty variant: the inner loop compares with "<" instead of "<="
near_unused_strict(k, used) ==
    { o \in 1..Len(df) :
        /\ o \notin used
        /\ haversine_distance(df[k].lat, df[k].lon, df[o].lat, df[o].lon)
               < GROUP_DISTANCE * GROUP_DISTANCE }

\* the inner loop: the rows not yet used that lie within GROUP_DISTANCE of row k
near_unused(k, used) ==
    { o \in 1..Len(df) :
        /\ o \notin used
        /\ Within(haversine_distance(df[k].lat, df[k].lon, df[o].lat, df[o].lon),
                  GROUP_DISTANCE) }

\* faulty variant: the break tests "> 20"
target_reached_late(sel) == Len(sel) > TOP_N

\* "if len(selected) >= 20: break"
target_reached(sel) == Len(sel) >= TOP_N

\* faulty variant: the test "if idx in used_indices: continue" is missing
GroupStep_no_skip ==
    /\ pc = "loop"
    /\ pos <= Len(df)
    /\ LET sel  == Append(selected, selection(pos, Len(selected) + 1))
           used == used_indices \cup {pos}
       IN  /\ selected' = sel
           /\ used_indices' = used \cup near_unused(pos, used)
           /\ IF target_reached(sel)
              THEN pc' = "finish" /\ pos' = pos
              ELSE pc' = pc /\ pos' = pos + 1
    /\ UNCHANGED << inputVars, upstreamVars, history, csv, fastVars, df >>

\* one iteration of "for idx, row in df.iterrows()"
GroupStep ==
    /\ pc = "loop"
    /\ pos <= Len(df)
    /\ IF pos \in used_indices
       THEN /\ pos' = pos + 1
            /\ UNCHANGED << selected, used_indices, pc >>
       ELSE LET sel  == Append(selected, selection(pos, Len(selected) + 1))
                used == used_indices \cup {pos}
            IN  /\ selected' = sel
                /\ used_indices' = used \cup near_unused(pos, used)
                /\ IF target_reached(sel)
                   THEN pc' = "finish" /\ pos' = pos
                   ELSE pc' = pc /\ pos' = pos + 1
    /\ UNCHANGED << inputVars, upstreamVars, history, csv, fastVars, df >>

\* the iteration is exhausted
GroupLoopEnd ==
    /\ pc = "loop"
    /\ pos > Len(df)
    /\ pc' = "finish"
    /\ UNCHANGED << inputVars, upstreamVars, history,
                    csv, fastVars, groupVars >>

\* df_grouped = pd.DataFrame(selected); ...; return df_grouped
GroupFinish ==
    /\ pc = "finish"
    /\ pc' = "done"
    /\ UNCHANGED << inputVars, upstreamVars, history,
                    csv, fastVars, groupVars >>

(***************************************************************************)
(* The two scripts run one after the other on the inputs of Init.          *)
(***************************************************************************)
Next ==
    \/ GridStep
    \/ Classify
    \/ ExtractUncovered
    \/ ScoreCandidates
    \/ SortResults
    \/ SaveCsv
    \/ LoadCandidates
    \/ LoadFails
    \/ GroupStep
    \/ GroupLoopEnd
    \/ GroupFinish

Spec == Init /\ [][Next]_vars

(***************************************************************************)
(* The grouping script alone, on any candidate file.                       *)
(***************************************************************************)
\* sites of candidate rows: two at exactly GROUP_DISTANCE, one just beyond
Sites == { Pt(0, 0), Pt(400, 300), Pt(0, 501) }

Scores == {1, 2}

CandidateRows == [lat : {p.lat : p \in Sites}, lon : {p.lon : p \in Sites},
                  name : {"A"}, score : Scores]

SiteRows == { r \in CandidateRows : Pt(r.lat, r.lon) \in Sites }

ShortFiles == UNION { [1..n -> SiteRows] : n \in 0..MaxRows }

\* rows in a line, a fixed gap apart, scores falling by `fall` per row
Gaps == {250, 500, 501}

LineFile(n, gap, fall) ==
    [k \in 1..n |-> [lat |-> 0, lon |-> (k - 1) * gap, name |-> "A",
                     score |-> 1 + fall * (n - k)]]

LongFiles ==
    { LineFile(n, gap, fall) :
        n \in (TOP_N - 1)..(TOP_N + MaxExtra), gap \in Gaps, fall \in {0, 1} }

CandidateFiles == { File(rows) : rows \in ShortFiles \cup LongFiles } \cup {NoFile}

InitGrouped ==
    /\ features = <<>>
    /\ pop_data = <<>>
    /\ aed_coords = <<>>
    /\ csv \in CandidateFiles
    /\ pc = "load"
    /\ Blank
    /\ NoUpstream
    /\ ScriptConfig

NextGrouped ==
    \/ LoadCandidates
    \/ LoadFails
    \/ GroupStep
    \/ GroupLoopEnd
    \/ GroupFinish

SpecGrouped == InitGrouped /\ [][NextGrouped]_vars

\* the interpreter runs the script to its end
FairSpecGrouped == SpecGrouped /\ WF_vars(NextGrouped)

(***************************************************************************)
(* Both scripts on a region of more grid points than the candidate file    *)
(* keeps.                                                                  *)
(***************************************************************************)
\* a region of 12 x 9 = 108 lattice points, alone, with a one-cell region, or
\* replaced by the one-cell region
LargeFeatureLists ==
    { << [geometry |-> Rect(0, 0, 650, 500), name |-> "A"] >>,
      << [geometry |-> Rect(0, 0, 650, 500), name |-> "A"],
         [geometry |-> Rect(0, 0, 100, 100), name |-> "B"] >>,
      << [geometry |-> Rect(0, 0, 100, 100), name |-> "A"] >> }

InitLarge ==
    /\ features \in LargeFeatureLists
    /\ pop_data \in { [n \in {"A", "B"} |-> IF n = "A" THEN 3 ELSE 1],
                      [n \in {} |-> 0] }
    /\ aed_coords \in { <<>>, << Pt(50, 0) >> }
    /\ csv = NoFile
    /\ pc = "grid"
    /\ Blank
    /\ NoUpstream
    /\ ScriptConfig

SpecLarge == InitLarge /\ [][Next]_vars

(***************************************************************************)
(* The two scripts run again and again in one working directory: each run  *)
(* is a new process, the candidate file stays on disk.                     *)
(***************************************************************************)
\* the number of runs followed
MaxRuns == 3

\* four one-cell regions in a row, at lon 50, 300, 600 and 850
RowOfCells ==
    << [geometry |-> Rect(0, 0, 100, 100), name |-> "L"],
       [geometry |-> Rect(250, 0, 350, 100), name |-> "A"],
       [geometry |-> Rect(550, 0, 650, 100), name |-> "Q"],
       [geometry |-> Rect(800, 0, 900, 100), name |-> "B"] >>

\* three one-cell regions 400 m apart, at lon 50, 450 and 850
ThreeCells ==
    << [geometry |-> Rect(0, 0, 100, 100), name |-> "L"],
       [geometry |-> Rect(400, 0, 500, 100), name |-> "A"],
       [geometry |-> Rect(800, 0, 900, 100), name |-> "B"] >>

RunFeatureLists ==
    { RowOfCells, SubSeq(RowOfCells, 1, 1), SubSeq(RowOfCells, 3, 3), ThreeCells }

RunPopulation == [n \in {"L", "A", "Q", "B"} |-> IF n = "L" THEN 3 ELSE 1]

\* no unit, one unit, and the same unit listed behind a unit far from all regions
RunAedFiles == { <<>>, << Pt(50, 0) >>, << Pt(50, 2000), Pt(50, 0) >> }

\* what a completed run is remembered by
RunRecord ==
    [features |-> features, pop_data |-> pop_data, aed_coords |-> aed_coords,
     outcome |-> pc, selected |-> selected]

InitRuns ==
    /\ features \in RunFeatureLists
    /\ pop_data = RunPopulation
    /\ aed_coords \in RunAedFiles
    /\ csv = NoFile
    /\ pc = "grid"
    /\ Blank
    /\ NoUpstream
    /\ ScriptConfig

\* the scripts are started again, on any inputs: fresh local variables, the
\* working directory as the last run left it
NextRun ==
    /\ pc \in {"done", "failed"}
    /\ Len(history) + 1 < MaxRuns
    /\ history' = Append(history, RunRecord)
    /\ features' \in RunFeatureLists
    /\ pop_data' = RunPopulation
    /\ aed_coords' \in RunAedFiles
    /\ pc' = "grid"
    /\ i' = 1
    /\ grid_points' = <<>>
    /\ risk_per_point' = Rat(0)
    /\ all_points' = <<>>
    /\ is_covered' = <<>>
    /\ uncovered_xy' = <<>>
    /\ uncovered_risks' = <<>>
    /\ uncovered_info' = <<>>
    /\ results' = <<>>
    /\ df_results' = <<>>
    /\ df' = <<>>
    /\ pos' = 1
    /\ selected' = <<>>
    /\ used_indices' = {}
    /\ UNCHANGED << csv, grid_spacing, cover_distance, upstreamVars >>

NextRuns ==
    \/ Next
    \/ NextRun

SpecRuns == InitRuns /\ [][NextRuns]_vars

(***************************************************************************)
(* The fast script under other values of its two constants and on          *)
(* geometries that may be invalid, followed by the grouping script.        *)
(***************************************************************************)
\* a cell, a square of side 1000 and a self-crossing ring
ConfigPolygons == { Rect(0, 0, 100, 100), Rect(0, 0, 1000, 1000), Bowtie(0, 0, 100, 100) }

ConfigFeatureLists ==
    UNION { [1..n -> [geometry : ConfigPolygons, name : {"A"}]] : n \in 1..MaxFeatures }

Spacings == {-250, 0, 250}

Radii == {0, 600}

InitConfig ==
    /\ features \in ConfigFeatureLists
    /\ pop_data = [n \in {"A"} |-> 1000]
    /\ aed_coords \in { <<>>, << Pt(500, 500) >> }
    /\ grid_spacing \in Spacings
    /\ cover_distance \in Radii
    /\ history = <<>>
    /\ csv = NoFile
    /\ pc = "grid"
    /\ Blank
    /\ NoUpstream

NextConfig ==
    \/ Next
    \/ GridLoopsForever
    \/ GridRaises

SpecConfig == InitConfig /\ [][NextConfig]_vars


(***************************************************************************)
(* grid_level_recommendation.py, main(): the nested loops.                 *)
(***************************************************************************)
\* for aed_lat, aed_lon in aed_locations: if haversine_distance(...) <=
\* COVER_DISTANCE: is_covered = True; break
RECURSIVE is_covered_nested(_, _, _)
is_covered_nested(p, aed_locations, radius) ==
    IF aed_locations = <<>> THEN FALSE
    ELSE IF Within(haversine_distance(p.lat, p.lon, Head(aed_locations).lat,
                                      Head(aed_locations).lon), radius)
         THEN TRUE
         ELSE is_covered_nested(p, Tail(aed_locations), radius)

\* df_uncovered = df_grid[~df_grid['is_covered']]
df_uncovered_nested(points, aed_locations, radius) ==
    SelectSeq(points, LAMBDA r : ~is_covered_nested(r, aed_locations, radius))

\* candidates = df_uncovered[[lat, lon, ward, chocho]].drop_duplicates():
\* the first row of every (lat, lon, name)
candidates_nested(uncovered) ==
    LET key(r) == << r.lat, r.lon, r.name >>
        first  == SelectSeq([k \in 1..Len(uncovered) |-> k],
                      LAMBDA k : \A j \in 1..(k - 1) : key(uncovered[j]) # key(uncovered[k]))
    IN  [k \in 1..Len(first) |-> uncovered[first[k]]]

\* the loop "for i, (u_lat, u_lon) in enumerate(uncovered_coords)" up to row n
RECURSIVE new_covered_risk_nested(_, _, _, _)
new_covered_risk_nested(c, uncovered, radius, n) ==
    IF n = 0 THEN Rat(0)
    ELSE LET before == new_covered_risk_nested(c, uncovered, radius, n - 1)
         IN  IF Within(haversine_distance(c.lat, c.lon, uncovered[n].lat,
                                          uncovered[n].lon), radius)
             THEN RAdd(before, uncovered[n].risk)
             ELSE before

\* the rows the nested loops record, one per candidate
results_nested(points, aed_locations, radius) ==
    LET uncovered == df_uncovered_nested(points, aed_locations, radius)
        cands     == candidates_nested(uncovered)
    IN  [k \in 1..Len(cands) |->
            [lat   |-> cands[k].lat,
             lon   |-> cands[k].lon,
             name  |-> cands[k].name,
             score |-> int(new_covered_risk_nested(cands[k], uncovered, radius,
                                                   Len(uncovered)))]]

(***************************************************************************)
(* uniform_distribution_model.py, main(): coverage per region.             *)
(***************************************************************************)
\* int(sqrt(d2)), found between lo and hi
RECURSIVE isqrt_between(_, _, _)
isqrt_between(d2, lo, hi) ==
    IF lo >= hi THEN lo
    ELSE LET mid == (lo + hi + 1) \div 2
         IN  IF mid * mid <= d2 THEN isqrt_between(d2, mid, hi)
             ELSE isqrt_between(d2, lo, mid - 1)

\* int(dist) for a distance kept as its square
int_distance(d2) == isqrt_between(d2, 0, 1 + (d2 \div 2))

\* the loop "for aed_lat, aed_lon in aed_locations" for one grid point p,
\* entered with st = [min, count]: min_distance is lowered by every unit the
\* loop reaches, and the loop breaks at the first unit within COVER_DISTANCE
RECURSIVE scan_units(_, _, _)
scan_units(p, aed_locations, st) ==
    IF aed_locations = <<>> THEN st
    ELSE LET dist == haversine_distance(p.lat, p.lon, Head(aed_locations).lat,
                                        Head(aed_locations).lon)
             low  == IF st.min.inf \/ dist < st.min.d2
                     THEN [inf |-> FALSE, d2 |-> dist] ELSE st.min
         IN  IF Within(dist, COVER_DISTANCE)
             THEN [min |-> low, count |-> st.count + 1]
             ELSE scan_units(p, Tail(aed_locations), [min |-> low, count |-> st.count])

\* the loop "for lat, lon in grid_points" up to point n
RECURSIVE scan_points(_, _, _)
scan_points(points, aed_locations, n) ==
    IF n = 0 THEN [min |-> [inf |-> TRUE, d2 |-> 0], count |-> 0]
    ELSE scan_units(points[n], aed_locations, scan_points(points, aed_locations, n - 1))

\* the row appended for a feature
uniform_row(feat, points) ==
    LET st == scan_points(points, aed_coords, Len(points))
    IN  [name      |-> feat.name,
         points    |-> Len(points),
         covered   |-> st.count,
         covered_risk |-> int(RDiv([n |-> risk_pop_of(feat).n * st.count,
                                     d |-> risk_pop_of(feat).d], Len(points))),
         none      |-> st.min.inf,
         nearest_m |-> IF st.min.inf THEN 0 ELSE int_distance(st.min.d2)]

\* one iteration of "for i, feat in enumerate(features)"
UniformStep ==
    /\ pc = "uniform"
    /\ i <= Len(features)
    /\ features[i].geometry.valid
    /\ grid_spacing > 0
    /\ grid_points' = grid_points_of(features[i].geometry)
    /\ results' = Append(results, uniform_row(features[i], grid_points'))
    /\ i' = i + 1
    /\ UNCHANGED << inputVars, upstreamVars, history,
                    csv, pc, risk_per_point, all_points, is_covered,
                    uncovered_xy, uncovered_risks, uncovered_info, df_results,
                    groupVars >>

\* the loop is over, the table of results is written
UniformEnd ==
    /\ pc = "uniform"
    /\ i > Len(features)
    /\ pc' = "uniform_done"
    /\ UNCHANGED << inputVars, upstreamVars, history,
                    csv, fastVars, groupVars >>

InitUniform ==
    /\ features \in FeatureLists
    /\ pop_data \in PopTables
    /\ aed_coords \in AedFiles
    /\ csv = NoFile
    /\ pc = "uniform"
    /\ Blank
    /\ NoUpstream
    /\ ScriptConfig

NextUniform ==
    \/ UniformStep
    \/ UniformEnd

SpecUniform == InitUniform /\ [][NextUniform]_vars

(***************************************************************************)
(* aed_placement_recommendation.py, main(): the priority list of the        *)
(* regions without a unit within 500 m, and the simulation of placing a    *)
(* unit at each of the first ten.                                          *)
(***************************************************************************)
\* the radius of calculate_coverage_improvement (0.5 km), in metres
IMPROVEMENT_RADIUS == 500

\* the length of the recommended list
TOP_PLACES == 10

\* a region row of df_chocho: its representative point, its populations,
\* the distance to its nearest unit (in units of 100 m) and the number of
\* units within 500 m
Town(name, lon, pop, count) ==
    [name |-> name, lat |-> 0, lon |-> lon, pop |-> pop,
     elderly |-> pop \div 5, late |-> pop \div 10,
     nearest |-> IF count = 0 THEN 6 + lon \div 1000 ELSE 1,
     count |-> count]

TownSites == {0, 400, 2000}

TownPopulations == {0, 10, 30}

Towns ==
    { Town("T", lon, pop, count) :
        lon \in TownSites, pop \in TownPopulations, count \in {0, 1} }

\* eleven populated regions without a unit, 2 km apart
ElevenTowns == [k \in 1..11 |-> Town("T", 2000 * k, 10 * k, 0)]

TownTables == UNION { [1..n -> Towns] : n \in 1..MaxRows } \cup { ElevenTowns }

\* df_chocho[(count == 0) & (pop > 0)]
df_blank_of(towns) == SelectSeq(towns, LAMBDA t : t.count = 0 /\ t.pop > 0)

RECURSIVE max_of(_, _)
\* column.max() over the values k..Len(column)
max_of(column, k) ==
    IF k > Len(column) THEN 0
    ELSE LET rest == max_of(column, k + 1)
         IN  IF column[k] > rest THEN column[k] ELSE rest

\* the priority 0.4 e/max e + 0.3 l/max l + 0.2 p/max p + 0.1 d/max d (times
\* 100), brought to the common denominator max e * max l * max p * max d
priority_rows(blank) ==
    LET me == max_of([k \in 1..Len(blank) |-> blank[k].elderly], 1)
        ml == max_of([k \in 1..Len(blank) |-> blank[k].late], 1)
        mp == max_of([k \in 1..Len(blank) |-> blank[k].pop], 1)
        md == max_of([k \in 1..Len(blank) |-> blank[k].nearest], 1)
    IN  [k \in 1..Len(blank) |->
            [town  |-> blank[k],
             score |-> 4 * blank[k].elderly * ml * mp * md
                       + 3 * blank[k].late * me * mp * md
                       + 2 * blank[k].pop * me * ml * md
                       + 1 * blank[k].nearest * me * ml * mp]]

\* df_priority.head(10), one recommendation per row
recommendations_of(towns) ==
    LET top == head(sort_values(priority_rows(df_blank_of(towns))), TOP_PLACES)
    IN  [k \in 1..Len(top) |->
            [rank |-> k, lat |-> top[k].town.lat, lon |-> top[k].town.lon,
             pop |-> top[k].town.pop]]

RECURSIVE coverage_from(_, _, _, _)
\* the loop of calculate_coverage_improvement over the rows k..Len(towns)
coverage_from(new_lat, new_lon, towns, k) ==
    IF k > Len(towns) THEN 0
    ELSE LET row == towns[k]
             add == IF row.pop = 0 THEN 0
                    ELSE IF row.count = 0
                            /\ Within(haversine_distance(new_lat, new_lon,
                                                         row.lat, row.lon),
                                      IMPROVEMENT_RADIUS)
                         THEN row.pop
                         ELSE 0
         IN  add + coverage_from(new_lat, new_lon, towns, k + 1)

calculate_coverage_improvement(new_lat, new_lon, towns) ==
    coverage_from(new_lat, new_lon, towns, 1)

RECURSIVE pop_sum(_, _)
\* df['総人口'].sum() over the rows k..Len(towns)
pop_sum(towns, k) ==
    IF k > Len(towns) THEN 0 ELSE towns[k].pop + pop_sum(towns, k + 1)

total_pop == pop_sum(df_chocho, 1)

covered_pop == pop_sum(SelectSeq(df_chocho, LAMBDA t : t.count > 0), 1)

\* the TOP10 list is made from the regions without a unit
Recommend ==
    /\ pc = "priority"
    /\ recommendations' = recommendations_of(df_chocho)
    /\ cumulative_new_coverage' = 0
    /\ i' = 1
    /\ pc' = "simulate"
    /\ UNCHANGED << inputVars, history, csv, groupVars, df_concat, df_merged,
                    df_chocho, grid_points, risk_per_point, all_points,
                    is_covered, uncovered_xy, uncovered_risks, uncovered_info,
                    results, df_results >>

\* one iteration of "for i, rec in enumerate(recommendations)"
SimulateStep ==
    /\ pc = "simulate"
    /\ i <= Len(recommendations)
    /\ cumulative_new_coverage' =
           cumulative_new_coverage
           + calculate_coverage_improvement(recommendations[i].lat,
                                            recommendations[i].lon, df_chocho)
    /\ i' = i + 1
    /\ UNCHANGED << inputVars, history, csv, groupVars, df_concat, df_merged,
                    df_chocho, recommendations, pc, grid_points,
                    risk_per_point, all_points, is_covered, uncovered_xy,
                    uncovered_risks, uncovered_info, results, df_results >>

SimulateEnd ==
    /\ pc = "simulate"
    /\ i > Len(recommendations)
    /\ pc' = "simulated"
    /\ UNCHANGED << inputVars, upstreamVars, history,
                    csv, fastVars, groupVars >>

EmptyInputs ==
    /\ features = <<>>
    /\ pop_data = << >>
    /\ aed_coords = <<>>
    /\ csv = NoFile

InitPlacement ==
    /\ EmptyInputs
    /\ pc = "priority"
    /\ Blank
    /\ df_concat = <<>>
    /\ df_merged = <<>>
    /\ df_chocho \in TownTables
    /\ recommendations = <<>>
    /\ cumulative_new_coverage = 0
    /\ ScriptConfig

NextPlacement ==
    \/ Recommend
    \/ SimulateStep
    \/ SimulateEnd

SpecPlacement == InitPlacement /\ [][NextPlacement]_vars

(***************************************************************************)
(* merge_aed_data.py, main(): the four sources are concatenated and         *)
(* remove_duplicates() keeps one record per rounded coordinate pair.       *)
(* A coordinate is a number of millionths of a degree, or missing (NaN).   *)
(***************************************************************************)
NaN == [nan |-> TRUE, v |-> 0]

Deg(v) == [nan |-> FALSE, v |-> v]

\* the sources in the order main() concatenates them: 川崎市オープンデータ,
\* 全国AEDマップ, セブン-イレブン（川崎市協定）, aedm.jp
Sources == << "kawasaki", "national", "seven", "aedm" >>

\* source_priority, with fillna(5) for a source it does not list
source_priority(source) ==
    CASE source = "kawasaki" -> 1
      [] source = "national" -> 2
      [] source = "seven" -> 3
      [] source = "aedm" -> 4
      [] OTHER -> 5

\* Series.round(5): to the nearest multiple of 10 millionths, a tie to the
\* even one; a missing value stays missing
round5(c) ==
    IF c.nan THEN NaN
    ELSE LET q == c.v \div 10
             r == c.v % 10
         IN  IF r < 5 THEN Deg(10 * q)
             ELSE IF r > 5 THEN Deg(10 * (q + 1))
             ELSE IF q % 2 = 0 THEN Deg(10 * q)
             ELSE Deg(10 * (q + 1))

\* the subset columns of drop_duplicates; pandas takes missing values of a
\* column for equal
dedup_key(rec) ==
    << round5(rec.latitude), round5(rec.longitude) >>

\* DataFrame.drop_duplicates(subset, keep='first')
drop_duplicates(rows) ==
    SelectSeq(rows,
              LAMBDA rec :
                  \A j \in 1..Len(rows) :
                      dedup_key(rows[j]) = dedup_key(rec)
                          => \E k \in 1..j : rows[k] = rec)

\* the orders sort_values('_priority') may leave the rows in: ascending by
\* priority, rows of equal priority in any order (the default sort is not
\* stable)
priority_orders(rows) ==
    { o \in [1..Len(rows) -> 1..Len(rows)] :
        /\ \A a, b \in 1..Len(rows) : a # b => o[a] # o[b]
        /\ \A a, b \in 1..Len(rows) :
              a < b => source_priority(rows[o[a]].source)
                           <= source_priority(rows[o[b]].source) }

remove_duplicates(rows, order) == drop_duplicates(Take(rows, order))

LatValues == {4, 5, 15}

LngValues == {5, 6}

\* a located record of any source, or a store whose address geocode_address
\* could not resolve
AedRecords ==
    [source : { Sources[k] : k \in 1..Len(Sources) },
     latitude : { Deg(v) : v \in LatValues },
     longitude : { Deg(v) : v \in LngValues }]
    \cup { [source |-> "seven", latitude |-> NaN, longitude |-> NaN] }

\* pd.concat([df_kawasaki, df_national, df_seven, df_aedm]): the records of
\* each source together, every record with an id of its own
ConcatTables ==
    { [k \in 1..Len(t) |->
          [id |-> k, source |-> t[k].source, latitude |-> t[k].latitude,
           longitude |-> t[k].longitude]] :
        t \in { u \in UNION { [1..n -> AedRecords] : n \in 1..MaxRows } :
                  \A a, b \in 1..Len(u) :
                      a < b => source_priority(u[a].source)
                                   <= source_priority(u[b].source) } }

RemoveDuplicates ==
    /\ pc = "merge"
    /\ \E order \in priority_orders(df_concat) :
          df_merged' = remove_duplicates(df_concat, order)
    /\ pc' = "merged"
    /\ UNCHANGED << inputVars, history, csv, fastVars, groupVars, df_concat,
                    df_chocho, recommendations, cumulative_new_coverage >>

InitMerge ==
    /\ EmptyInputs
    /\ pc = "merge"
    /\ Blank
    /\ df_concat \in ConcatTables
    /\ df_merged = <<>>
    /\ df_chocho = <<>>
    /\ recommendations = <<>>
    /\ cumulative_new_coverage = 0
    /\ ScriptConfig

NextMerge == RemoveDuplicates

SpecMerge == InitMerge /\ [][NextMerge]_vars

(***************************************************************************)
(* Properties.                                                             *)
(***************************************************************************)
\* the positions in all_points of the points classified uncovered, in order
UncoveredPositions ==
    SelectSeq([k \in 1..Len(all_points) |-> k], LAMBDA k : ~is_covered[k])

\* the total weight of the uncovered grid points within COVER_DISTANCE of p
UncoveredWeightNear(p) ==
    LET near == SelectSeq(UncoveredPositions,
                    LAMBDA q : Within(SqDist(all_points[q].lat, all_points[q].lon,
                                             p.lat, p.lon), COVER_DISTANCE))
    IN  RSum([k \in 1..Len(near) |-> all_points[near[k]].risk])

\* the total weight of all uncovered grid points
UncoveredWeight ==
    RSum([k \in 1..Len(UncoveredPositions) |-> all_points[UncoveredPositions[k]].risk])

\* a feature has just been processed
Processed == pc = "grid" /\ i > 1

\* the classification has just been made
Classified == pc = "extract"

\* the uncovered points have just been extracted
Extracted == pc \in {"score", "returned"}

\* every candidate has just been scored
Scored == pc = "sort"

LoopOver == pc \in {"finish", "done"}

\* the rows of all_points the current feature appended
LastSegment ==
    SubSeq(all_points, Len(all_points) - Len(grid_points) + 1, Len(all_points))

\* C1: once the grouping loop is over, any two distinct accepted
\* Recommendations lie farther apart than GROUP_DISTANCE.
C1_AcceptedApart ==
    LoopOver =>
        \A a, b \in 1..Len(selected) :
            a # b =>
                ~Within(haversine_distance(selected[a].lat, selected[a].lon,
                                           selected[b].lat, selected[b].lon),
                        GROUP_DISTANCE)

\* C1 witness: the loop is over with two accepted rows and a row suppressed
\* at exactly GROUP_DISTANCE from an accepted one.
C1_Witness ==
    /\ pc = "done"
    /\ Len(selected) >= 2
    /\ \E o \in 1..Len(df), a \in 1..Len(selected) :
          /\ \A b \in 1..Len(selected) : selected[b].orig # o
          /\ haversine_distance(df[o].lat, df[o].lon, selected[a].lat, selected[a].lon)
                 = GROUP_DISTANCE * GROUP_DISTANCE

\* C2: after a feature is processed, the weights of the grid points it
\* contributed sum to the population weight matched to that feature.
C2_WeightConservation ==
    Processed =>
        /\ Len(grid_points) <= Len(all_points)
        /\ \A k \in 1..Len(grid_points) :
              /\ LastSegment[k].lat = grid_points[k].lat
              /\ LastSegment[k].lon = grid_points[k].lon
              /\ LastSegment[k].name = features[i - 1].name
        /\ RSum([k \in 1..Len(grid_points) |-> LastSegment[k].risk])
               = risk_pop_of(features[i - 1])

\* C2 witness: a feature of several grid points whose weight per point is
\* a proper fraction.
C2_Witness ==
    /\ Processed
    /\ Len(grid_points) >= 2
    /\ risk_per_point.d > 1

\* C3: every processed feature contributes at least one grid point; when
\* the lattice of the feature is empty, exactly its centroid is used, and
\* that point carries the whole weight of the feature.
C3_FallbackGuarantee ==
    Processed =>
        /\ Len(grid_points) >= 1
        /\ Len(all_points) >= i - 1
        /\ generate_grid_points(features[i - 1].geometry, GRID_SPACING) = <<>> =>
              /\ grid_points = << centroid(features[i - 1].geometry) >>
              /\ all_points[Len(all_points)].lat = centroid(features[i - 1].geometry).lat
              /\ all_points[Len(all_points)].lon = centroid(features[i - 1].geometry).lon
              /\ all_points[Len(all_points)].risk = risk_pop_of(features[i - 1])

\* C3 witness: a feature with an empty lattice and a positive weight was
\* processed.
C3_Witness ==
    /\ Processed
    /\ generate_grid_points(features[i - 1].geometry, GRID_SPACING) = <<>>
    /\ risk_pop_of(features[i - 1]).n > 0

\* C4: a grid point is classified covered exactly when its nearest
\* installed unit lies within COVER_DISTANCE, the boundary included.
C4_CoveredIffNearestWithin ==
    Classified =>
        /\ Len(is_covered) = Len(all_points)
        /\ \A k \in 1..Len(all_points) :
              is_covered[k] <=>
                  \E f \in 1..Len(aed_coords) :
                      /\ \A g \in 1..Len(aed_coords) :
                            SqDist(all_points[k].lat, all_points[k].lon,
                                   aed_coords[f].lat, aed_coords[f].lon)
                              <= SqDist(all_points[k].lat, all_points[k].lon,
                                        aed_coords[g].lat, aed_coords[g].lon)
                      /\ SqDist(all_points[k].lat, all_points[k].lon,
                                aed_coords[f].lat, aed_coords[f].lon)
                           <= COVER_DISTANCE * COVER_DISTANCE

\* C4 witness: a point whose nearest unit is exactly COVER_DISTANCE away is
\* covered, next to a point left uncovered.
C4_Witness ==
    /\ Classified
    /\ \E k \in 1..Len(all_points) :
          /\ is_covered[k]
          /\ \A f \in 1..Len(aed_coords) :
                SqDist(all_points[k].lat, all_points[k].lon,
                       aed_coords[f].lat, aed_coords[f].lon)
                  >= COVER_DISTANCE * COVER_DISTANCE
    /\ \E k \in 1..Len(all_points) : ~is_covered[k]

\* sites at which one more unit may be installed
ExtraSites == { Pt(50, 350), Pt(50, 0), Pt(2000, 2000) }

\* C5: with the radius and the grid points fixed, installing one more unit
\* leaves every covered point covered.
C5_CoverageMonotone ==
    Classified =>
        \A s \in ExtraSites :
            \A k \in 1..Len(all_points) :
                is_covered[k] =>
                    /\ classify(all_points, Append(aed_coords, s), COVER_DISTANCE)[k]
                    /\ classify(all_points, <<s>> \o aed_coords, COVER_DISTANCE)[k]

\* C5 witness: some point is covered, and an added unit covers a point that
\* was uncovered.
C5_Witness ==
    /\ Classified
    /\ \E k \in 1..Len(all_points) : is_covered[k]
    /\ \E s \in ExtraSites, k \in 1..Len(all_points) :
          /\ ~is_covered[k]
          /\ classify(all_points, Append(aed_coords, s), COVER_DISTANCE)[k]


\* the grid point behind the candidate at position k
CandidatePoint(k) == all_points[UncoveredPositions[k]]

C8_ScoreBounded ==
    Scored =>
        \A k \in 1..Len(results) :
            /\ RLeq(Rat(results[k].score), UncoveredWeight)
            /\ (Len(features) = 1 /\ aed_coords = <<>>) =>
                  RLeq(Rat(results[k].score), risk_pop_of(features[1]))

\* C8 witness: with one feature and no installed unit, one candidate's
\* score reaches the feature's weight and another's stays below it.
C8_Witness ==
    /\ Scored
    /\ Len(features) = 1
    /\ aed_coords = <<>>
    /\ \E k \in 1..Len(results) : Rat(results[k].score) = risk_pop_of(features[1])
    /\ \E k \in 1..Len(results) : results[k].score > 0
                                  /\ Rat(results[k].score) # risk_pop_of(features[1])

\* C9: the candidates are exactly the grid points classified uncovered, in
\* order, and no recorded score holds more than the uncovered weight within
\* COVER_DISTANCE of its candidate (no covered point's weight is added).
C9_OnlyUncovered ==
    /\ (Extracted \/ Scored) =>
          /\ Len(uncovered_info)
                 = Cardinality({k \in 1..Len(all_points) : ~is_covered[k]})
          /\ Len(uncovered_xy) = Len(uncovered_info)
          /\ Len(uncovered_risks) = Len(uncovered_info)
          /\ \A k \in 1..Len(uncovered_info) :
                /\ uncovered_info[k] = CandidatePoint(k)
                /\ uncovered_xy[k] = Pt(CandidatePoint(k).lat, CandidatePoint(k).lon)
                /\ uncovered_risks[k] = CandidatePoint(k).risk
    /\ Scored =>
          /\ Len(results) = Len(uncovered_info)
          /\ \A k \in 1..Len(results) :
                /\ results[k].lat = CandidatePoint(k).lat
                /\ results[k].lon = CandidatePoint(k).lon
                /\ RLeq(Rat(results[k].score), UncoveredWeightNear(CandidatePoint(k)))

\* C9 witness: every candidate is scored, and a covered point of positive
\* weight lies within COVER_DISTANCE of a candidate.
C9_Witness ==
    /\ Scored
    /\ \E k \in 1..Len(results), c \in 1..Len(all_points) :
          /\ is_covered[c]
          /\ all_points[c].risk.n > 0
          /\ Within(SqDist(all_points[c].lat, all_points[c].lon,
                           results[k].lat, results[k].lon), COVER_DISTANCE)

\* C10: the grouping loop ends; it accepts at most TOP_N rows, and fewer
\* than TOP_N only when every row of its input is accepted or marked used.
C10_LoopEndsWithinTarget ==
    /\ (pc = "loop") ~> (pc = "finish")
    /\ [](LoopOver =>
            /\ Len(selected) <= TOP_N
            /\ Len(selected) < TOP_N => used_indices = 1..Len(df))

\* C10 witness: the loop stopped at TOP_N accepted rows with rows left that
\* were neither accepted nor marked used.
C10_Witness ==
    /\ pc = "done"
    /\ Len(selected) = TOP_N
    /\ used_indices # 1..Len(df)

\* the grouping script has just read and sorted the candidate file
Loaded == pc = "loop" /\ pos = 1 /\ selected = <<>>

\* C11: the rows the grouping script examines are all the rows the scorer
\* recorded, in descending order of score, however many uncovered points
\* there are.
C11_FullCandidateList ==
    Loaded =>
        /\ Len(df) = Len(results)
        /\ \A k \in 1..Len(results) : \E j \in 1..Len(df) : df[j] = results[k]
        /\ \A j \in 1..(Len(df) - 1) : df[j].score >= df[j + 1].score

\* C11 witness: more than HEAD_ROWS points were scored, and a scored point
\* is missing from the rows the grouping script read
C11_Witness ==
    /\ Loaded
    /\ Len(results) > HEAD_ROWS
    /\ Len(df) = HEAD_ROWS
    /\ \E k \in 1..Len(results) : \A j \in 1..Len(df) : df[j] # results[k]

\* the grouping loop is running or over
Grouping == pc \in {"loop", "finish", "done"}

\* the number of positions of seq that hold the row r
Count(seq, r) == Cardinality({ j \in 1..Len(seq) : seq[j] = r })

\* C12: while and after the grouping loop runs, the rows examined are the
\* rows of the candidate file with the scores the scorer wrote, every
\* accepted Recommendation carries the score of the row it was made from, and
\* a step of the loop changes neither a candidate row, nor the candidate
\* file, nor a Recommendation accepted earlier.
C12_ScoresComputedOnce ==
    /\ [](Grouping =>
            /\ Len(df) = Len(csv.rows)
            /\ \A j \in 1..Len(df) : Count(df, df[j]) = Count(csv.rows, df[j])
            /\ \A a \in 1..Len(selected) :
                  LET row == df[selected[a].orig]
                  IN  /\ selected[a].score = row.score
                      /\ selected[a].lat = row.lat
                      /\ selected[a].lon = row.lon
                      /\ selected[a].name = row.name)
    /\ [][pc = "loop" =>
            /\ df' = df
            /\ csv' = csv
            /\ \A a \in 1..Len(selected) : selected'[a] = selected[a]]_vars

\* C12 witness: the second Recommendation was accepted after a row of another
\* score had been suppressed, so its rank and its position differ
C12_Witness ==
    /\ pc = "done"
    /\ Len(selected) >= 2
    /\ selected[2].orig > 2
    /\ df[2].score # selected[2].score
    /\ 2 \in used_indices

\* both scripts of the current run have ended
RunOver == pc \in {"done", "failed"}

\* C13: a run that ends on the regions, population table and installed
\* units of an earlier run ends as that run did, with the same
\* Recommendations in the same order.
C13_SameInputsSameOutput ==
    RunOver =>
        \A h \in 1..Len(history) :
            ( /\ history[h].features = features
              /\ history[h].pop_data = pop_data
              /\ history[h].aed_coords = aed_coords )
            => /\ history[h].outcome = pc
               /\ history[h].selected = selected

\* C13 witness: a run repeats the inputs of an earlier run and emits
\* Recommendations where the earlier run emitted none
C13_Witness ==
    /\ pc = "done"
    /\ selected # <<>>
    /\ \E h \in 1..Len(history) :
          /\ history[h].features = features
          /\ history[h].pop_data = pop_data
          /\ history[h].aed_coords = aed_coords
          /\ history[h].selected = <<>>

\* C14: with no installed unit, every grid point is classified uncovered,
\* every grid point is extracted and scored as a candidate, in order, and the
\* run reaches no failure.
C14_NoFacilityAllCandidates ==
    aed_coords = <<>> =>
        /\ pc # "failed"
        /\ Classified =>
              /\ Len(is_covered) = Len(all_points)
              /\ \A k \in 1..Len(all_points) : ~is_covered[k]
        /\ Extracted =>
              /\ pc = "score"
              /\ uncovered_info = all_points
        /\ Scored =>
              /\ Len(results) = Len(all_points)
              /\ \A k \in 1..Len(all_points) :
                    /\ results[k].lat = all_points[k].lat
                    /\ results[k].lon = all_points[k].lon
                    /\ results[k].name = all_points[k].name

\* C14 witness: with no installed unit, the points of two features were all
\* scored
C14_Witness ==
    /\ aed_coords = <<>>
    /\ Scored
    /\ Len(features) = 2
    /\ Len(results) = Len(all_points)
    /\ Len(all_points) >= 2

\* C15: with a spacing or a radius that is not positive (and valid
\* geometries), the run is rejected as an invalid configuration before any
\* feature is rasterized: it never gets past its first step and never hangs
\* in generate_grid_points.
C15_DegenerateConfigRejected ==
    ( /\ grid_spacing <= 0 \/ cover_distance <= 0
      /\ \A k \in 1..Len(features) : features[k].geometry.valid ) =>
        /\ pc \in {"grid", "invalid_configuration"}
        /\ i = 1
        /\ all_points = <<>>

\* C15 witness: with a spacing of zero the script hangs in
\* generate_grid_points on its first feature
C15_Witness ==
    /\ grid_spacing = 0
    /\ pc = "spin"
    /\ i = 1

\* C16: a feature of invalid geometry does not abort the run: the feature
\* loop goes on, and once it is over every valid feature has contributed
\* its grid points.
C16_InvalidRegionIsolated ==
    /\ pc # "aborted"
    /\ Classified =>
          Len(all_points) >= Cardinality({ k \in 1..Len(features) : features[k].geometry.valid })

\* C16 witness: the run ended on the exception of the first feature, and
\* the valid feature behind it was never rasterized
C16_Witness ==
    /\ pc = "aborted"
    /\ i = 1
    /\ Len(features) = 2
    /\ features[2].geometry.valid
    /\ all_points = <<>>

\* the lattice points (miny + a*spacing, minx + b*spacing), a, b >= 0, inside
\* the bounding box of the polygon and strictly inside the polygon
InteriorLattice(polygon, spacing) ==
    LET rows == 1 + ((polygon.maxy - polygon.miny) \div spacing)
        cols == 1 + ((polygon.maxx - polygon.minx) \div spacing)
    IN  { p \in { Pt(polygon.miny + a * spacing, polygon.minx + b * spacing) :
                     a \in 0..rows, b \in 0..cols } :
            /\ p.lon <= polygon.maxx /\ p.lat <= polygon.maxy
            /\ polygon.minx < p.lon /\ p.lon < polygon.maxx
            /\ polygon.miny < p.lat /\ p.lat < polygon.maxy }

\* C17: the grid points generated for a feature are exactly the lattice
\* points from the bounding box's minimum corner that lie strictly inside
\* the polygon, each once: none on the boundary or outside, none omitted
\* (when there is none, the points are the centroid fallback alone).
C17_RasterizerExact ==
    Processed =>
        LET inside == InteriorLattice(features[i - 1].geometry, grid_spacing)
        IN  IF inside = {}
            THEN grid_points = << centroid(features[i - 1].geometry) >>
            ELSE /\ { grid_points[k] : k \in 1..Len(grid_points) } = inside
                 /\ Len(grid_points) = Cardinality(inside)

\* C17 witness: the strip was rasterized into its twelve interior lattice
\* points, the lattice points of its boundary left out
C17_Witness ==
    /\ Processed
    /\ features[i - 1].geometry = Rect(0, 0, 650, 100)
    /\ Len(grid_points) = 12
    /\ \A k \in 1..Len(grid_points) :
          /\ grid_points[k].lat = 50
          /\ grid_points[k].lon \in 50..600

\* the square of side 1000 has just been rasterized at a spacing of 250
SquareRasterized ==
    /\ Processed
    /\ features[i - 1].geometry = Rect(0, 0, 1000, 1000)
    /\ grid_spacing = 250

\* C18 as stated: the square of side 1000 rasterized at a spacing of 250
\* yields exactly 16 grid points.
C18_SquareYieldsSixteen == SquareRasterized => Len(grid_points) = 16

\* C18 as amended: the square of side 1000 rasterized at a spacing of 250
\* yields the 3 x 3 lattice at 250, 500 and 750 on either axis, row by
\* row: exactly 9 grid points.
C18_SquareYieldsNine ==
    SquareRasterized =>
        /\ Len(grid_points) = 9
        /\ \A k \in 1..Len(grid_points) :
              grid_points[k] = Pt(250 * (1 + ((k - 1) \div 3)), 250 * (1 + ((k - 1) % 3)))

\* C18 witness: the square was rasterized at a spacing of 250, and no grid
\* point lies on its boundary
C18_Witness ==
    /\ SquareRasterized
    /\ Len(grid_points) > 1
    /\ \A k \in 1..Len(grid_points) :
          /\ grid_points[k].lat \notin {0, 1000}
          /\ grid_points[k].lon \notin {0, 1000}

\* C19: the Recommendations a run emits are rows its own scorer recorded,
\* for points its own classification left uncovered; nothing of an earlier
\* run appears among them.
C19_NoCrossRunPersistence ==
    pc = "done" =>
        \A a \in 1..Len(selected) :
            /\ \E k \in 1..Len(results) :
                  /\ results[k].lat = selected[a].lat
                  /\ results[k].lon = selected[a].lon
                  /\ results[k].name = selected[a].name
                  /\ results[k].score = selected[a].score
            /\ \E q \in 1..Len(all_points) :
                  /\ ~is_covered[q]
                  /\ all_points[q].lat = selected[a].lat
                  /\ all_points[q].lon = selected[a].lon

\* C19 witness: a run in which every point is covered and nothing was scored
\* ends with a Recommendation that an earlier run's candidate file supplied
C19_Witness ==
    /\ pc = "done"
    /\ history # <<>>
    /\ all_points # <<>>
    /\ \A q \in 1..Len(all_points) : is_covered[q]
    /\ results = <<>>
    /\ selected # <<>>
    /\ \E h \in 1..Len(history) : selected = history[h].selected

\* the current run has written the candidate file its grouping script read
OwnCandidates == pc = "done" /\ results # <<>>

\* C20: the score of every accepted Recommendation is the truncated weight
\* of all uncovered points within COVER_DISTANCE of it, the points within
\* COVER_DISTANCE of another accepted Recommendation included: a point in
\* reach of two accepted Recommendations counts in both scores.
C20_SharedPointCountsTwice ==
    OwnCandidates =>
        \A a \in 1..Len(selected) :
            selected[a].score
                = int(UncoveredWeightNear(Pt(selected[a].lat, selected[a].lon)))

\* C20 witness: two accepted Recommendations lie farther apart than
\* GROUP_DISTANCE, an uncovered point of positive weight lies within
\* COVER_DISTANCE of both, and their scores add up to more than the total
\* uncovered weight
C20_Witness ==
    /\ OwnCandidates
    /\ Len(selected) = 2
    /\ ~Within(SqDist(selected[1].lat, selected[1].lon,
                      selected[2].lat, selected[2].lon), GROUP_DISTANCE)
    /\ \E q \in 1..Len(all_points) :
          /\ ~is_covered[q]
          /\ all_points[q].risk.n > 0
          /\ \A a \in 1..2 :
                Within(SqDist(all_points[q].lat, all_points[q].lon,
                              selected[a].lat, selected[a].lon), COVER_DISTANCE)
    /\ ~RLeq(Rat(selected[1].score + selected[2].score), UncoveredWeight)

\* the classification and the grouping of a run, read at the end of the run,
\* agree with a coverage radius of cover and a grouping radius of group
RadiiInForce(cover, group) ==
    pc = "done" =>
        /\ \A k \in 1..Len(all_points) :
              is_covered[k] <=>
                  \E f \in 1..Len(aed_coords) :
                      SqDist(aed_coords[f].lat, aed_coords[f].lon,
                             all_points[k].lat, all_points[k].lon) <= cover * cover
        /\ \A a, b \in 1..Len(selected) :
              a # b => SqDist(selected[a].lat, selected[a].lon,
                              selected[b].lat, selected[b].lon) > group * group
        /\ \A o \in used_indices :
              \E a \in 1..Len(selected) :
                  SqDist(selected[a].lat, selected[a].lon, df[o].lat, df[o].lon)
                      <= group * group

\* C21 as stated: grid points are classified against the installed units at
\* 500 m and new candidates are grouped at 300 m.
C21_CoverAt500GroupAt300 == RadiiInForce(500, 300)

\* C21 as amended: grid points are classified against the installed units at
\* 300 m (COVER_DISTANCE) and new candidates are grouped at 500 m
\* (GROUP_DISTANCE), two separate constants.
C21_CoverAt300GroupAt500 ==
    /\ RadiiInForce(300, 500)
    /\ cover_distance = COVER_DISTANCE
    /\ COVER_DISTANCE = 300
    /\ GROUP_DISTANCE = 500

\* C21 witness: a point 403 m from the only installed unit is uncovered, and
\* a candidate 400 m from an accepted Recommendation is suppressed
C21_Witness ==
    /\ pc = "done"
    /\ results # <<>>
    /\ \E k \in 1..Len(all_points) :
          /\ ~is_covered[k]
          /\ \E f \in 1..Len(aed_coords) :
                LET d2 == SqDist(aed_coords[f].lat, aed_coords[f].lon,
                                 all_points[k].lat, all_points[k].lon)
                IN  d2 > 300 * 300 /\ d2 <= 500 * 500
    /\ \E o \in used_indices :
          /\ \A a \in 1..Len(selected) : selected[a].orig # o
          /\ \A a \in 1..Len(selected) :
                SqDist(selected[a].lat, selected[a].lon, df[o].lat, df[o].lon)
                    > 300 * 300

\* C22: on the grid points, weights and installed units of a run, the nested
\* loop with early exit classifies every point as the nearest-neighbour query
\* did, and the nested loops record for every uncovered point the row (place,
\* name and score) the radius query recorded, and no other row.
C22_NestedLoopsAgree ==
    /\ Classified =>
          \A k \in 1..Len(all_points) :
              is_covered[k] = is_covered_nested(all_points[k], aed_coords, cover_distance)
    /\ Scored =>
          LET nested == results_nested(all_points, aed_coords, cover_distance)
          IN  /\ \A k \in 1..Len(results) : \E j \in 1..Len(nested) : nested[j] = results[k]
              /\ \A j \in 1..Len(nested) : \E k \in 1..Len(results) : nested[j] = results[k]

\* C22 witness: with two installed units, a point is covered by the second
\* only, and rows were recorded for several uncovered points
C22_Witness ==
    /\ Scored
    /\ Len(aed_coords) = 2
    /\ Len(results) >= 2
    /\ \E k \in 1..Len(all_points) :
          /\ is_covered[k]
          /\ ~Within(SqDist(aed_coords[1].lat, aed_coords[1].lon,
                            all_points[k].lat, all_points[k].lon), COVER_DISTANCE)

\* C23: while the grouping loop runs, every row before the one examined is
\* in used_indices and so is every accepted row; a step of the loop takes no
\* row out of used_indices, adds only the examined row and rows behind it,
\* and accepts the examined row only if it was not in used_indices.
C23_LoopInvariant ==
    /\ [](pc = "loop" =>
            /\ \A j \in 1..(pos - 1) : j \in used_indices
            /\ \A a \in 1..Len(selected) :
                  /\ selected[a].orig \in used_indices
                  /\ selected[a].orig < pos)
    /\ [][pc = "loop" =>
            /\ used_indices \subseteq used_indices'
            /\ \A o \in used_indices' \ used_indices : o >= pos /\ o <= Len(df)
            /\ Len(selected') > Len(selected) =>
                  /\ pos \notin used_indices
                  /\ selected'[Len(selected')].orig = pos]_vars

\* C23 witness: the loop stands at a row not yet used, behind an accepted
\* row and a row that the accepted row suppressed
C23_Witness ==
    /\ pc = "loop"
    /\ pos >= 3
    /\ pos <= Len(df)
    /\ pos \notin used_indices
    /\ Len(selected) >= 1
    /\ \E j \in 1..(pos - 1) : \A a \in 1..Len(selected) : selected[a].orig # j

\* C24: the Recommendations carry the ranks 1, 2, ... in order of acceptance;
\* the first has the highest score of the candidate file, scores do not
\* increase with rank, and the original position of each is at least its
\* rank and greater than that of the Recommendation before it.
C24_OrderedOutput ==
    Grouping =>
        /\ \A a \in 1..Len(selected) :
              /\ selected[a].rank = a
              /\ selected[a].orig >= a
              /\ a > 1 => /\ selected[a].orig > selected[a - 1].orig
                          /\ selected[a].score <= selected[a - 1].score
        /\ Len(selected) >= 1 =>
              \A j \in 1..Len(csv.rows) : selected[1].score >= csv.rows[j].score

\* C24 witness: from a file not in order of score, two Recommendations of
\* different scores were accepted, the second past a suppressed row
C24_Witness ==
    /\ pc = "done"
    /\ Len(csv.rows) >= 3
    /\ csv.rows[1].score < csv.rows[Len(csv.rows)].score
    /\ Len(selected) = 2
    /\ selected[2].score < selected[1].score
    /\ selected[2].orig = 3

\* C25: when the grouping loop ends with fewer than TOP_N accepted rows,
\* every row that was not accepted lies within GROUP_DISTANCE of an accepted
\* row that stands before it in the sorted order and scores no less.
C25_MaximalOnExhaustion ==
    (LoopOver /\ Len(selected) < TOP_N) =>
        \A o \in 1..Len(df) :
            (\A a \in 1..Len(selected) : selected[a].orig # o) =>
                \E a \in 1..Len(selected) :
                    /\ selected[a].orig < o
                    /\ selected[a].score >= df[o].score
                    /\ Within(haversine_distance(selected[a].lat, selected[a].lon,
                                                 df[o].lat, df[o].lon), GROUP_DISTANCE)

\* C25 witness: the loop ran out of rows with two accepted, a row exactly
\* GROUP_DISTANCE from an accepted one suppressed
C25_Witness ==
    /\ LoopOver
    /\ pos > Len(df)
    /\ Len(selected) = 2
    /\ \E o \in 1..Len(df) :
          /\ \A a \in 1..Len(selected) : selected[a].orig # o
          /\ \E a \in 1..Len(selected) :
                haversine_distance(selected[a].lat, selected[a].lon,
                                   df[o].lat, df[o].lon)
                    = GROUP_DISTANCE * GROUP_DISTANCE

\* the least squared distance between a point of points and a unit of units
\* (both not empty)
LeastSqDist(points, units) ==
    CHOOSE d \in { SqDist(points[k].lat, points[k].lon, units[f].lat, units[f].lon) :
                      k \in 1..Len(points), f \in 1..Len(units) } :
        \A k \in 1..Len(points), f \in 1..Len(units) :
            d <= SqDist(points[k].lat, points[k].lon, units[f].lat, units[f].lon)

\* C26: the nearest-unit distance reported for a region is the least
\* distance between a grid point of the region and an installed unit,
\* truncated to an integer, and is None exactly when no unit is installed.
C26_NearestDistanceIsLeast ==
    \A k \in 1..Len(results) :
        pc \in {"uniform", "uniform_done"} =>
            LET points == grid_points_of(features[k].geometry)
            IN  /\ results[k].none <=> aed_coords = <<>>
                /\ ~results[k].none =>
                      results[k].nearest_m
                          = int_distance(LeastSqDist(points, aed_coords))

\* C26 witness: the distance reported for a region is greater than the
\* distance from one of its grid points to an installed unit
C26_Witness ==
    /\ pc = "uniform_done"
    /\ \E k \in 1..Len(results) :
          /\ ~results[k].none
          /\ results[k].covered >= 1
          /\ LET points == grid_points_of(features[k].geometry)
             IN  \E q \in 1..Len(points), f \in 1..Len(aed_coords) :
                    int_distance(SqDist(points[q].lat, points[q].lon,
                                        aed_coords[f].lat, aed_coords[f].lon))
                        < results[k].nearest_m


\* the simulation loop of aed_placement_recommendation.py runs or is over
Simulating == pc \in {"simulate", "simulated"}

\* the regions without a unit that lie within the radius of recommendation a
Reached(a) ==
    { k \in 1..Len(df_chocho) :
        /\ df_chocho[k].count = 0
        /\ df_chocho[k].pop > 0
        /\ Within(haversine_distance(recommendations[a].lat,
                                     recommendations[a].lon,
                                     df_chocho[k].lat, df_chocho[k].lon),
                  IMPROVEMENT_RADIUS) }

\* C27: during and after the simulation over the recommended places, the
\* cumulative newly covered population is at most the population of the
\* regions without a unit, so that (covered_pop + cumulative_new_coverage)
\* never exceeds total_pop: a region within the radius of several recommended
\* places is added once.
C27_CumulativeWithinUncovered ==
    Simulating =>
        /\ cumulative_new_coverage <= total_pop - covered_pop
        /\ covered_pop + cumulative_new_coverage <= total_pop

\* the simulation is over and a region lay within the radius of two
\* recommended places
C27_Witness ==
    /\ pc = "simulated"
    /\ \E a, b \in 1..Len(recommendations) :
          a # b /\ Reached(a) \cap Reached(b) # {}


\* the coordinates of records a and b agree after rounding to 5 decimals
SameRounded(a, b) ==
    /\ ~a.latitude.nan /\ ~a.longitude.nan
    /\ ~b.latitude.nan /\ ~b.longitude.nan
    /\ round5(a.latitude).v = round5(b.latitude).v
    /\ round5(a.longitude).v = round5(b.longitude).v

\* the records of df_concat in one group with record k
GroupOf(k) ==
    {k} \cup { j \in 1..Len(df_concat) : SameRounded(df_concat[j], df_concat[k]) }

\* the records of the group of k that remove_duplicates kept
KeptOf(k) ==
    { j \in GroupOf(k) : \E a \in 1..Len(df_merged) : df_merged[a] = df_concat[j] }

\* C28: after remove_duplicates, every group of records whose latitude and
\* longitude agree after rounding to 5 decimals has exactly one record left,
\* that record is of the highest-priority source present in the group, and
\* records whose rounded coordinate pairs differ are not merged: every kept
\* record is a record of the input and no record outside a group stands for it.
C28_OnePerRoundedPair ==
    pc = "merged" =>
        /\ \A a \in 1..Len(df_merged) :
              \E j \in 1..Len(df_concat) : df_merged[a] = df_concat[j]
        /\ \A k \in 1..Len(df_concat) :
              /\ Cardinality(KeptOf(k)) = 1
              /\ \A j \in KeptOf(k) : \A g \in GroupOf(k) :
                    source_priority(df_concat[j].source)
                        <= source_priority(df_concat[g].source)

\* remove_duplicates ran on records of two sources at one rounded pair
C28_Witness ==
    /\ pc = "merged"
    /\ \E j, k \in 1..Len(df_concat) :
          /\ SameRounded(df_concat[j], df_concat[k])
          /\ df_concat[j].source # df_concat[k].source
          /\ df_concat[j].latitude # df_concat[k].latitude


\* the (ward, town name) keys of the population records that match a polygon
MatchedNames == { features[k].name : k \in 1..Len(features) } \cap DOMAIN pop_data

RECURSIVE WeightOfNames(_)
\* the sum of the population weights of the records with the keys S
WeightOfNames(S) ==
    IF S = {} THEN 0
    ELSE LET name == CHOOSE n \in S : TRUE
         IN  pop_data[name] + WeightOfNames(S \ {name})

\* the grid loop of the fast script is over
GridOver == pc \in {"extract", "score", "returned", "sort", "save", "saved"}

\* C29: once every region is rasterized, the weights of all grid points add up
\* to the weights of the distinct population records that matched at least
\* one polygon (a record shared by several polygons counted once), and the
\* points of a polygon without a matching record weigh 0.
C29_GlobalWeightConservation ==
    GridOver =>
        /\ RSum([k \in 1..Len(all_points) |-> all_points[k].risk])
               = Rat(WeightOfNames(MatchedNames))
        /\ \A k \in 1..Len(all_points) :
              all_points[k].name \notin DOMAIN pop_data
                  => all_points[k].risk = Rat(0)

\* the grid loop is over and two polygons shared the key of a population
\* record
C29_Witness ==
    /\ GridOver
    /\ \E a, b \in 1..Len(features) :
          /\ a # b
          /\ features[a].name = features[b].name
          /\ features[a].name \in DOMAIN pop_data

====
